---- MODULE Spec2Model ----
(***************************************************************************)
(* The batch HEIC/HEIF converter page (src/src/app/page.tsx, lines 1-266): *)
(* the React state of the Home component, the handlers handleFiles,        *)
(* convertImages (with convertSingleFile inlined at its awaits) and        *)
(* downloadZip, and the Flush button.  Every atomic block of JavaScript    *)
(* between two awaits is one action.  Two other pages of the repository    *)
(* that keep the same state are modelled after it, where they behave       *)
(* differently: HEIC_CONVERTER_V2.0 (src/unnamed/part_002, lines 236-485)  *)
(* HEIC Batch Converter (src/unnamed/part_001, lines 1-222),               *)
(* HEIC_COMPILER_X (src/src/app/page.tsx, lines 268-574) and the           *)
(* single-file page HEIC to JPEG (src/unnamed/part_000).                   *)
(***************************************************************************)
EXTENDS Integers, Sequences, FiniteSets, TLC

VARIABLES
    files,        \* useState<File[]>           page.tsx:20
    isConverting, \* useState(false)            page.tsx:21
    results,      \* useState<ConvertedFile[]>  page.tsx:22
    progress,     \* useState(0)                page.tsx:23
    logs,         \* useState<LogEntry[]>       page.tsx:25
    run,          \* the one convertImages invocation in flight: its position,
                  \* the files of its closure, its loop index i
    zipJobs,      \* the downloadZip invocations in flight: the results each closed over
    archive,      \* the last archive handed to the browser: member name -> blob
    liveUrls,     \* object URLs created by URL.createObjectURL and not revoked
    ops,          \* history: number of user gestures handled so far
    lastStage,    \* history: the last handleFiles call, with the state it found
    batchGen,     \* history: number of successful stagings (names the staged batch)
    attempts,     \* history: per file of the run's batch, calls of convertSingleFile
    outcomes,     \* history: per file of the run's batch, "none" | "success" | "failure"
    emitted,      \* history: the values the run's loop passed to setProgress
    runEnd,       \* history: "none" | "running" | "completed" | "aborted"
    restaged,     \* history: a batch was staged since the last run was started
    lastZip       \* history: the results the last delivered archive was built from

vars == <<files, isConverting, results, progress, logs, run, zipJobs, archive,
          liveUrls, ops, lastStage, batchGen, attempts, outcomes, emitted,
          runEnd, restaged, lastZip>>

(***************************************************************************)
(* Bounds of the model.                                                    *)
(***************************************************************************)
MaxCand == 1      \* longest candidate list enumerated exhaustively
MaxOps == 3       \* user gestures (stage, run, zip, flush) per behaviour
MaxStages == 2    \* handleFiles calls per behaviour
MaxZipJobs == 1   \* downloadZip invocations in flight at once

(***************************************************************************)
(* Program constants.                                                      *)
(***************************************************************************)
MaxBatch == 100   \* .slice(0, 100)
LogKeep == 99     \* prev.slice(-99)

(***************************************************************************)
(* File names are sequences of characters, so that toLowerCase, endsWith   *)
(* and the extension-stripping regular expression are computed.            *)
(***************************************************************************)
\* String.prototype.toLowerCase on one character
LowerChar(c) ==
    CASE c = "H" -> "h"
      [] c = "E" -> "e"
      [] c = "I" -> "i"
      [] c = "C" -> "c"
      [] c = "F" -> "f"
      [] OTHER -> c

toLowerCase(s) == [k \in 1..Len(s) |-> LowerChar(s[k])]

endsWith(s, suffix) ==
    /\ Len(s) >= Len(suffix)
    /\ SubSeq(s, Len(s) - Len(suffix) + 1, Len(s)) = suffix

DotHeic == <<".", "h", "e", "i", "c">>
DotHeif == <<".", "h", "e", "i", "f">>
DotJpg == <<".", "j", "p", "g">>

\* the filter with the toLowerCase call forgotten
IsValidNameCaseSensitive(fname) ==
    endsWith(fname, DotHeic) \/ endsWith(fname, DotHeif)

\* the filter callback of handleFiles
IsValidName(fname) ==
    LET name == toLowerCase(fname)
    IN  endsWith(name, DotHeic) \/ endsWith(name, DotHeif)

\* name.replace(/\.[^/.]+$/, ""): drop a last "." followed by one or more
\* characters that are neither "/" nor "."
StripExt(s) ==
    LET dots == {k \in 1..Len(s) :
                    /\ s[k] = "."
                    /\ k < Len(s)
                    /\ \A j \in (k + 1)..Len(s) : s[j] \notin {".", "/"}}
    IN  IF dots = {} THEN s
        ELSE LET k == CHOOSE d \in dots : TRUE IN SubSeq(s, 1, k - 1)

\* file.name.replace(/\.[^/.]+$/, "") + ".jpg"
OutputName(fname) == StripExt(fname) \o DotJpg

(***************************************************************************)
(* The File objects a user can select.  content stands for the bytes: what *)
(* the decoder makes of them ("jpeg": the JPEG-target call succeeds;       *)
(* "png": the JPEG-target call throws and the PNG-target call succeeds;    *)
(* "bad": both throw).                                                     *)
(***************************************************************************)
File(id, name, content) == [id |-> id, name |-> name, content |-> content]

F1 == File(1, <<"a", ".", "h", "e", "i", "c">>, "jpeg")
F2 == File(2, <<"a", ".", "h", "e", "i", "f">>, "png")
F3 == File(3, <<"b", ".", "H", "E", "I", "C">>, "bad")
F4 == File(4, <<"c", ".", "h", "e", "i", "c", ".", "j", "p", "g">>, "jpeg")
F5 == File(5, <<"d", ".", "b", ".", "H", "e", "i", "f">>, "jpeg")
F6 == File(6, <<"e", "h", "e", "i", "c">>, "jpeg")
F7 == File(7, <<".", "h", "e", "i", "c">>, "png")

Files == {F1, F2, F3, F4}
StageFiles == Files \cup {F5, F6, F7}

\* the lists without repetition, of at most n files of S
ListsOf(S, n) ==
    UNION {{q \in [1..k -> S] : \A a, b \in 1..k : q[a] = q[b] => a = b} : k \in 0..n}

Batch2 == <<F1, F2>>
Batch3 == <<F1, F3, F2>>
Batch4 == <<F1, F2, F3, F5>>

\* what the file input or a drop hands to handleFiles
Candidates == ListsOf(Files, MaxCand) \cup {Batch2, Batch3, Batch4}

\* a selection of n files of which every fifth does not carry an accepted name
BigList(n) ==
    [k \in 1..n |->
        IF k % 5 = 0 THEN File(k, F4.name, "jpeg")
        ELSE IF k % 2 = 0 THEN File(k, F3.name, "jpeg")
        ELSE File(k, F1.name, "jpeg")]

BigCandidates == {BigList(MaxBatch - 1), BigList(MaxBatch + 1), BigList(125), BigList(126), BigList(150)}

Mixed == <<F6, F3, F4, F7, F5>>

StageCandidates == ListsOf(StageFiles, MaxCand) \cup BigCandidates \cup {Mixed, Batch4}

(***************************************************************************)
(* addLog (page.tsx:28-36): the id and the timestamp of an entry are left  *)
(* out; message is the fixed text, name and n the values spliced into it.  *)
(***************************************************************************)
LogEntry(message, type, name, n) ==
    [message |-> message, type |-> type, name |-> name, n |-> n]

\* Array.prototype.slice(-k): the last k elements
SliceLast(s, k) == IF Len(s) <= k THEN s ELSE SubSeq(s, Len(s) - k + 1, Len(s))

\* the log with the slice forgotten
addLogKeepsAll(prev, entry) == Append(prev, entry)

\* setLogs(prev => [...prev.slice(-99), newLog])
addLog(prev, entry) == Append(SliceLast(prev, LogKeep), entry)

RECURSIVE addLogs(_, _)
\* several addLog calls in one atomic block
addLogs(prev, entries) ==
    IF entries = <<>> THEN prev
    ELSE addLogs(addLog(prev, Head(entries)), Tail(entries))

NoName == <<>>

(***************************************************************************)
(* Initial state: the component as first rendered.                         *)
(***************************************************************************)
IdleRun == [pc |-> "idle", files |-> <<>>, i |-> 0, gen |-> 0, error |-> "none",
            calls |-> <<>>]

NoStage == [seq |-> 0, kind |-> "none", candidates |-> <<>>,
            prevFiles |-> <<>>, prevResults |-> <<>>, prevProgress |-> 0]

EmptyArchive == [nm \in {} |-> 0]

Init ==
    /\ files = <<>>
    /\ isConverting = FALSE
    /\ results = <<>>
    /\ progress = 0
    /\ logs = <<>>
    /\ run = IdleRun
    /\ zipJobs = <<>>
    /\ archive = EmptyArchive
    /\ liveUrls = 0
    /\ ops = 0
    /\ lastStage = NoStage
    /\ batchGen = 0
    /\ attempts = <<>>
    /\ outcomes = <<>>
    /\ emitted = <<>>
    /\ runEnd = "none"
    /\ restaged = FALSE
    /\ lastZip = <<>>

(***************************************************************************)
(* handleFiles (page.tsx:42-59).                                           *)
(***************************************************************************)
\* the filter with the slice one too long
ValidFilesOffByOne(selectedFiles) ==
    LET filtered == SelectSeq(selectedFiles, LAMBDA f : IsValidName(f.name))
    IN  SubSeq(filtered, 1, IF Len(filtered) < MaxBatch + 1 THEN Len(filtered) ELSE MaxBatch + 1)

\* the filter with the slice forgotten
ValidFilesUncapped(selectedFiles) ==
    SelectSeq(selectedFiles, LAMBDA f : IsValidName(f.name))

\* incoming.filter(...).slice(0, 100)
ValidFiles(selectedFiles) ==
    LET filtered == SelectSeq(selectedFiles, LAMBDA f : IsValidName(f.name))
    IN  SubSeq(filtered, 1, IF Len(filtered) < MaxBatch THEN Len(filtered) ELSE MaxBatch)

StageRecord(kind, selectedFiles) ==
    [seq |-> lastStage.seq + 1, kind |-> kind, candidates |-> selectedFiles,
     prevFiles |-> files, prevResults |-> results, prevProgress |-> progress]

\* the rejection clearing the batch instead of returning
HandleFilesRejectClears(selectedFiles) ==
    /\ logs' = addLog(logs, LogEntry("No valid HEIC/HEIF detected", "error", NoName, 0))
    /\ lastStage' = StageRecord("Rejected", selectedFiles)
    /\ files' = <<>>
    /\ results' = <<>>
    /\ progress' = 0
    /\ UNCHANGED <<batchGen, restaged>>

\* if (validFiles.length === 0) { addLog(..., "error"); return; }
HandleFilesReject(selectedFiles) ==
    /\ logs' = addLog(logs, LogEntry("No valid HEIC/HEIF detected", "error", NoName, 0))
    /\ lastStage' = StageRecord("Rejected", selectedFiles)
    /\ UNCHANGED <<files, results, progress, batchGen, restaged>>

\* the staging with setResults([]) and setProgress(0) forgotten
HandleFilesStageKeepsResults(selectedFiles) ==
    LET validFiles == ValidFiles(selectedFiles)
    IN  /\ files' = validFiles
        /\ UNCHANGED <<results, progress>>
        /\ logs' = addLog(logs, LogEntry("System: n files staged for conversion.",
                                         "info", NoName, Len(validFiles)))
        /\ lastStage' = StageRecord("Staged", selectedFiles)
        /\ batchGen' = batchGen + 1
        /\ restaged' = TRUE

\* setFiles(validFiles); setResults([]); setProgress(0); addLog(...)
HandleFilesStage(selectedFiles) ==
    LET validFiles == ValidFiles(selectedFiles)
    IN  /\ files' = validFiles
        /\ results' = <<>>
        /\ progress' = 0
        /\ logs' = addLog(logs, LogEntry("System: n files staged for conversion.",
                                         "info", NoName, Len(validFiles)))
        /\ lastStage' = StageRecord("Staged", selectedFiles)
        /\ batchGen' = batchGen + 1
        /\ restaged' = TRUE

HandleFiles(selectedFiles) ==
    /\ ops < MaxOps
    /\ lastStage.seq < MaxStages
    /\ ops' = ops + 1
    /\ IF Len(ValidFiles(selectedFiles)) = 0
       THEN HandleFilesReject(selectedFiles)
       ELSE HandleFilesStage(selectedFiles)
    /\ UNCHANGED <<isConverting, run, zipJobs, archive, liveUrls, attempts,
                   outcomes, emitted, runEnd, lastZip>>

\* if (!selectedFiles) return;
HandleFilesNull == UNCHANGED vars

(***************************************************************************)
(* convertImages (page.tsx:109-143) with convertSingleFile (page.tsx:61-   *)
(* 107) inlined.  run.pc names the await the invocation is suspended at:   *)
(* "import" (117), "header" (63), "jpeg" (70), "png" (91), "sleep" (135).  *)
(* run.files is the files array of the closure the click handler ran in;   *)
(* run.error is what the outer catch caught ("load": the import rejected); *)
(* run.calls is history: the heic2any calls made for the current file,     *)
(* each with its toType and how it ended.                                  *)
(***************************************************************************)
\* the percentage computed from i instead of i + 1
PercentOfIndex(done, total) == (200 * (done - 1) + total) \div (2 * total)

\* Math.round(((i + 1) / files.length) * 100): halves are rounded up, and the
\* double (done / total) * 100 is the exact quotient rounded to 53 bits, which
\* for a batch of at most 100 files falls below the half in two cases only:
\* (23 / 40) * 100 and (46 / 80) * 100 are 57.49999999999999
Percent(done, total) ==
    IF <<done, total>> \in {<<23, 40>>, <<46, 80>>} THEN 57
    ELSE (200 * done + total) \div (2 * total)

CurrentFile == run.files[run.i + 1]

\* addLog(`>> UNIT [${i+1}/${files.length}]: ${file.name}`, "process")
UnitLog(k) == LogEntry(">> UNIT [i+1/n]: name", "process", run.files[k].name, k)

\* the ConvertedFile convertSingleFile returns (78-83, 98-103); gen is history:
\* the batch the run that made it was started on
ConvertedFile(file, type) ==
    [name |-> OutputName(file.name),
     blob |-> [src |-> file.id, type |-> type],
     gen |-> run.gen]

\* RUN_BATCH left enabled while a run is in flight
ConvertImagesWhileConverting ==
    /\ ops < MaxOps
    /\ Len(files) # 0
    /\ ops' = ops + 1
    /\ isConverting' = TRUE
    /\ results' = <<>>
    /\ progress' = 0
    /\ logs' = addLog(logs, LogEntry("System: Loading WASM Decoders...", "process", NoName, 0))
    /\ run' = [pc |-> "import", files |-> files, i |-> 0, gen |-> batchGen,
               error |-> "none", calls |-> <<>>]
    /\ attempts' = [k \in 1..Len(files) |-> 0]
    /\ outcomes' = [k \in 1..Len(files) |-> "none"]
    /\ emitted' = <<>>
    /\ runEnd' = "running"
    /\ restaged' = FALSE
    /\ UNCHANGED <<files, zipJobs, archive, liveUrls, lastStage, batchGen, lastZip>>

\* the run taking the staged files away as it starts
ConvertImagesTakesFiles ==
    /\ ops < MaxOps
    /\ Len(files) # 0
    /\ ~isConverting
    /\ ops' = ops + 1
    /\ isConverting' = TRUE
    /\ files' = <<>>
    /\ results' = <<>>
    /\ progress' = 0
    /\ logs' = addLog(logs, LogEntry("System: Loading WASM Decoders...", "process", NoName, 0))
    /\ run' = [pc |-> "import", files |-> files, i |-> 0, gen |-> batchGen,
               error |-> "none", calls |-> <<>>]
    /\ attempts' = [k \in 1..Len(files) |-> 0]
    /\ outcomes' = [k \in 1..Len(files) |-> "none"]
    /\ emitted' = <<>>
    /\ runEnd' = "running"
    /\ restaged' = FALSE
    /\ UNCHANGED <<zipJobs, archive, liveUrls, lastStage, batchGen, lastZip>>

\* click on RUN_BATCH: enabled by line 197, guarded again by line 110
ConvertImages ==
    /\ ops < MaxOps
    /\ Len(files) # 0
    /\ ~isConverting
    /\ ops' = ops + 1
    /\ isConverting' = TRUE
    /\ results' = <<>>
    /\ progress' = 0
    /\ logs' = addLog(logs, LogEntry("System: Loading WASM Decoders...", "process", NoName, 0))
    /\ run' = [pc |-> "import", files |-> files, i |-> 0, gen |-> batchGen,
               error |-> "none", calls |-> <<>>]
    /\ attempts' = [k \in 1..Len(files) |-> 0]
    /\ outcomes' = [k \in 1..Len(files) |-> "none"]
    /\ emitted' = <<>>
    /\ runEnd' = "running"
    /\ restaged' = FALSE
    /\ UNCHANGED <<files, zipJobs, archive, liveUrls, lastStage, batchGen, lastZip>>

\* the loop calling convertSingleFile for the file after this one as well,
\* without awaiting this one
EnterFileAndNext(k, logged) ==
    /\ logs' = addLog(logged, UnitLog(k + 1))
    /\ run' = [run EXCEPT !.pc = "header", !.i = k, !.calls = <<>>]
    /\ attempts' = [j \in DOMAIN attempts |->
                       IF j \in {k + 1, k + 2} THEN attempts[j] + 1 ELSE attempts[j]]

\* the loop head for index k (0-based) and the call of convertSingleFile,
\* up to its first await (122-127, 63)
EnterFile(k, logged) ==
    /\ logs' = addLog(logged, UnitLog(k + 1))
    /\ run' = [run EXCEPT !.pc = "header", !.i = k, !.calls = <<>>]
    /\ attempts' = [attempts EXCEPT ![k + 1] = @ + 1]

\* import("heic2any") resolves (117-127)
ImportResolved ==
    /\ run.pc = "import"
    /\ EnterFile(0, addLog(logs, LogEntry("System: Decoders Active.", "success", NoName, 0)))
    /\ UNCHANGED <<files, isConverting, results, progress, zipJobs, archive, liveUrls,
                   ops, lastStage, batchGen, outcomes, emitted, runEnd, restaged, lastZip>>

\* the outer catch without the finally clause
ImportRejectedNoFinally ==
    /\ run.pc = "import"
    /\ logs' = addLog(logs, LogEntry("CRITICAL SYSTEM ERROR: message", "error", NoName, 0))
    /\ run' = [run EXCEPT !.pc = "idle", !.error = "load"]
    /\ runEnd' = "aborted"
    /\ UNCHANGED <<files, isConverting, results, progress, zipJobs, archive, liveUrls, ops,
                   lastStage, batchGen, attempts, outcomes, emitted, restaged, lastZip>>

\* import("heic2any") rejects: the outer catch and finally (138-142)
ImportRejected ==
    /\ run.pc = "import"
    /\ logs' = addLog(logs, LogEntry("CRITICAL SYSTEM ERROR: message", "error", NoName, 0))
    /\ isConverting' = FALSE
    /\ run' = [run EXCEPT !.pc = "idle", !.error = "load"]
    /\ runEnd' = "aborted"
    /\ UNCHANGED <<files, results, progress, zipJobs, archive, liveUrls, ops, lastStage,
                   batchGen, attempts, outcomes, emitted, restaged, lastZip>>

\* file.slice(0, 16).arrayBuffer() resolves (63-70)
HeaderRead ==
    /\ run.pc = "header"
    /\ logs' = addLogs(logs,
          <<LogEntry("Header [name.slice(-10)]: hex", "info", SliceLast(CurrentFile.name, 10), 0),
            LogEntry("Task: Primary JPEG Extract...", "process", NoName, 0)>>)
    /\ run' = [run EXCEPT !.pc = "jpeg"]
    /\ UNCHANGED <<files, isConverting, results, progress, zipJobs, archive, liveUrls,
                   ops, lastStage, batchGen, attempts, outcomes, emitted, runEnd,
                   restaged, lastZip>>

\* how the JPEG-target call can reject: with the decoder's "format not
\* supported" or with any other error; the catch clause (84) takes both alike
DecodeErrors == {"unsupported", "other"}

Call(toType, result) == [toType |-> toType, result |-> result]

\* the result put at the head of the list
RecordSuccessPrepends(res) ==
    /\ results' = <<res>> \o results
    /\ liveUrls' = liveUrls + 1
    /\ logs' = addLog(logs, LogEntry("SUCCESS: res.name", "success", res.name, 0))
    /\ progress' = Percent(run.i + 1, Len(run.files))
    /\ emitted' = Append(emitted, Percent(run.i + 1, Len(run.files)))
    /\ outcomes' = [outcomes EXCEPT ![run.i + 1] = "success"]
    /\ run' = [run EXCEPT !.pc = "sleep", !.calls = Append(@, Call(res.blob.type, "ok"))]

\* convertSingleFile returned res (128-135)
RecordSuccess(res) ==
    /\ results' = Append(results, res)
    /\ liveUrls' = liveUrls + 1
    /\ logs' = addLog(logs, LogEntry("SUCCESS: res.name", "success", res.name, 0))
    /\ progress' = Percent(run.i + 1, Len(run.files))
    /\ emitted' = Append(emitted, Percent(run.i + 1, Len(run.files)))
    /\ outcomes' = [outcomes EXCEPT ![run.i + 1] = "success"]
    /\ run' = [run EXCEPT !.pc = "sleep", !.calls = Append(@, Call(res.blob.type, "ok"))]

\* heic2any({toType: "image/jpeg"}) resolves (70-83, 128-135)
JpegResolved ==
    /\ run.pc = "jpeg"
    /\ CurrentFile.content = "jpeg"
    /\ RecordSuccess(ConvertedFile(CurrentFile, "image/jpeg"))
    /\ UNCHANGED <<files, isConverting, zipJobs, archive, ops, lastStage, batchGen,
                   attempts, runEnd, restaged, lastZip>>

\* heic2any({toType: "image/jpeg"}) rejects with err (84-91)
JpegRejected(err) ==
    /\ run.pc = "jpeg"
    /\ CurrentFile.content # "jpeg"
    /\ logs' = addLogs(logs,
          <<LogEntry("JPEG Method Failed. Trying PNG Fallback...", "info", NoName, 0),
            LogEntry("Task: Safe-Mode PNG Extract...", "process", NoName, 0)>>)
    /\ run' = [run EXCEPT !.pc = "png", !.calls = Append(@, Call("image/jpeg", err))]
    /\ UNCHANGED <<files, isConverting, results, progress, zipJobs, archive, liveUrls,
                   ops, lastStage, batchGen, attempts, outcomes, emitted, runEnd,
                   restaged, lastZip>>

\* heic2any({toType: "image/png"}) resolves (91-103, 128-135)
PngResolved ==
    /\ run.pc = "png"
    /\ CurrentFile.content = "png"
    /\ RecordSuccess(ConvertedFile(CurrentFile, "image/png"))
    /\ UNCHANGED <<files, isConverting, zipJobs, archive, ops, lastStage, batchGen,
                   attempts, runEnd, restaged, lastZip>>

\* the inner catch leaving the loop (a break) instead of going on
RecordFailureBreaks ==
    /\ logs' = addLog(logs, LogEntry("ERROR: err.message", "error", NoName, 0))
    /\ progress' = Percent(run.i + 1, Len(run.files))
    /\ emitted' = Append(emitted, Percent(run.i + 1, Len(run.files)))
    /\ outcomes' = [outcomes EXCEPT ![run.i + 1] = "failure"]
    /\ run' = [run EXCEPT !.pc = "sleep", !.i = Len(run.files) - 1,
                           !.calls = Append(@, Call("image/png", "rejected"))]

\* what the inner catch does with a file whose conversion threw (130-135)
RecordFailure ==
    /\ logs' = addLog(logs, LogEntry("ERROR: err.message", "error", NoName, 0))
    /\ progress' = Percent(run.i + 1, Len(run.files))
    /\ emitted' = Append(emitted, Percent(run.i + 1, Len(run.files)))
    /\ outcomes' = [outcomes EXCEPT ![run.i + 1] = "failure"]
    /\ run' = [run EXCEPT !.pc = "sleep", !.calls = Append(@, Call("image/png", "rejected"))]

\* heic2any({toType: "image/png"}) rejects; whatever it rejects with, line 105
\* throws the same Error (104-106, 130-135)
PngRejected ==
    /\ run.pc = "png"
    /\ CurrentFile.content = "bad"
    /\ RecordFailure
    /\ UNCHANGED <<files, isConverting, results, zipJobs, archive, liveUrls, ops,
                   lastStage, batchGen, attempts, runEnd, restaged, lastZip>>

\* the loop is over (137, 140-142)
FinishRun ==
    /\ logs' = addLog(logs, LogEntry("Sequence terminated. Check Output Vault.", "info", NoName, 0))
    /\ isConverting' = FALSE
    /\ run' = [run EXCEPT !.pc = "idle", !.i = Len(run.files), !.calls = <<>>]
    /\ runEnd' = "completed"
    /\ UNCHANGED attempts

\* the loop stepping by two
NextIndexSkips(k) == k + 2

\* the index the loop goes on with after index k
NextIndex(k) == k + 1

\* the loop test off by one: i < files.length - 1
TimerFiredShort ==
    /\ run.pc = "sleep"
    /\ IF NextIndex(run.i) < Len(run.files) - 1
       THEN /\ EnterFile(NextIndex(run.i), logs)
            /\ UNCHANGED <<isConverting, runEnd>>
       ELSE FinishRun
    /\ UNCHANGED <<files, results, progress, zipJobs, archive, liveUrls, ops, lastStage,
                   batchGen, outcomes, emitted, restaged, lastZip>>

\* setTimeout(r, 100) fires: i++ and the loop test (122, 135-137)
TimerFired ==
    /\ run.pc = "sleep"
    /\ IF NextIndex(run.i) < Len(run.files)
       THEN /\ EnterFile(NextIndex(run.i), logs)
            /\ UNCHANGED <<isConverting, runEnd>>
       ELSE FinishRun
    /\ UNCHANGED <<files, results, progress, zipJobs, archive, liveUrls, ops, lastStage,
                   batchGen, outcomes, emitted, restaged, lastZip>>

(***************************************************************************)
(* downloadZip (page.tsx:145-157).  The JSZip object is local to the       *)
(* invocation; its two awaits (147, 150) touch no shared state, so the     *)
(* invocation is the click and one completion.                             *)
(***************************************************************************)
\* JSZip.file(name, data): an entry of the same name is replaced
ZipFile(zip, name, blob) ==
    [nm \in (DOMAIN zip) \cup {name} |-> IF nm = name THEN blob ELSE zip[nm]]

RECURSIVE ZipAll(_, _)
\* results.forEach(res => zip.file(res.name, res.blob))
ZipAll(zip, rs) ==
    IF rs = <<>> THEN zip
    ELSE ZipAll(ZipFile(zip, Head(rs).name, Head(rs).blob), Tail(rs))

RemoveAt(s, j) == SubSeq(s, 1, j - 1) \o SubSeq(s, j + 1, Len(s))

\* the button rendered whatever the results are
DownloadZipAlwaysRendered ==
    /\ ops < MaxOps
    /\ Len(zipJobs) < MaxZipJobs
    /\ ops' = ops + 1
    /\ logs' = addLog(logs, LogEntry("Packaging results...", "process", NoName, 0))
    /\ zipJobs' = Append(zipJobs, results)
    /\ UNCHANGED <<files, isConverting, results, progress, run, archive, liveUrls,
                   lastStage, batchGen, attempts, outcomes, emitted, runEnd, restaged,
                   lastZip>>

\* click on GET_ZIP, rendered only when line 203 holds
DownloadZip ==
    /\ ops < MaxOps
    /\ Len(zipJobs) < MaxZipJobs
    /\ Len(results) > 0
    /\ ~isConverting
    /\ ops' = ops + 1
    /\ logs' = addLog(logs, LogEntry("Packaging results...", "process", NoName, 0))
    /\ zipJobs' = Append(zipJobs, results)
    /\ UNCHANGED <<files, isConverting, results, progress, run, archive, liveUrls,
                   lastStage, batchGen, attempts, outcomes, emitted, runEnd, restaged,
                   lastZip>>

\* generateAsync resolves: the archive is handed to the browser (147-156)
ZipDelivered(j) ==
    /\ j \in 1..Len(zipJobs)
    /\ archive' = ZipAll(EmptyArchive, zipJobs[j])
    /\ lastZip' = zipJobs[j]
    /\ liveUrls' = liveUrls + 1
    /\ logs' = addLog(logs, LogEntry("Archive delivered.", "success", NoName, 0))
    /\ zipJobs' = RemoveAt(zipJobs, j)
    /\ UNCHANGED <<files, isConverting, results, progress, run, ops, lastStage,
                   batchGen, attempts, outcomes, emitted, runEnd, restaged>>

\* import("jszip") or generateAsync rejects: nothing catches it
ZipRejected(j) ==
    /\ j \in 1..Len(zipJobs)
    /\ zipJobs' = RemoveAt(zipJobs, j)
    /\ UNCHANGED <<files, isConverting, results, progress, logs, run, archive, liveUrls,
                   ops, lastStage, batchGen, attempts, outcomes, emitted, runEnd,
                   restaged, lastZip>>

\* the Flush button: setLogs([]) (page.tsx:235)
Flush ==
    /\ ops < MaxOps
    /\ ops' = ops + 1
    /\ logs' = <<>>
    /\ UNCHANGED <<files, isConverting, results, progress, run, zipJobs, archive,
                   liveUrls, lastStage, batchGen, attempts, outcomes, emitted, runEnd,
                   restaged, lastZip>>

(***************************************************************************)
(* The page: user gestures interleaved with the completions of the awaits. *)
(***************************************************************************)
Next ==
    \/ \E selectedFiles \in Candidates : HandleFiles(selectedFiles)
    \/ HandleFilesNull
    \/ ConvertImages
    \/ ImportResolved
    \/ ImportRejected
    \/ HeaderRead
    \/ JpegResolved
    \/ \E err \in DecodeErrors : JpegRejected(err)
    \/ PngResolved
    \/ PngRejected
    \/ TimerFired
    \/ DownloadZip
    \/ \E j \in 1..MaxZipJobs : ZipDelivered(j)
    \/ \E j \in 1..MaxZipJobs : ZipRejected(j)
    \/ Flush

Spec == Init /\ [][Next]_vars

\* staging alone, over the long candidate lists as well
NextStage ==
    \/ \E selectedFiles \in StageCandidates : HandleFiles(selectedFiles)
    \/ HandleFilesNull

SpecStage == Init /\ [][NextStage]_vars

\* a batch whose run logs more entries than the log keeps
LogBatch == BigList(32)

\* one long run, with the gestures that touch the log
NextLog ==
    \/ HandleFiles(LogBatch)
    \/ ConvertImages
    \/ ImportResolved
    \/ ImportRejected
    \/ HeaderRead
    \/ JpegResolved
    \/ TimerFired
    \/ Flush

SpecLog == Init /\ [][NextLog]_vars

\* the completion of the await the run is suspended at
RunStep ==
    \/ ImportResolved
    \/ ImportRejected
    \/ HeaderRead
    \/ JpegResolved
    \/ \E err \in DecodeErrors : JpegRejected(err)
    \/ PngResolved
    \/ PngRejected
    \/ TimerFired

\* the selections the runs with every mix of outcomes start from
FairCandidates == {<<F3>>, Batch3, Batch4}

NextFair ==
    \/ \E selectedFiles \in FairCandidates : HandleFiles(selectedFiles)
    \/ ConvertImages
    \/ RunStep

\* every promise the run awaits settles, and the timer fires
SpecFair == Init /\ [][NextFair]_vars /\ WF_vars(RunStep)

\* a selection of n files with accepted names that all convert
ProgressList(n) == [k \in 1..n |-> File(k, F1.name, "jpeg")]

\* the page after one handleFiles call with a selection of 1 to 101 files and
\* the click on RUN_BATCH
InitProgress ==
    \E n \in 1..(MaxBatch + 1) :
        LET validFiles == ValidFiles(ProgressList(n))
        IN  /\ files = validFiles
            /\ isConverting = TRUE
            /\ results = <<>>
            /\ progress = 0
            /\ logs = addLogs(<<>>,
                   <<LogEntry("System: n files staged for conversion.", "info", NoName,
                              Len(validFiles)),
                     LogEntry("System: Loading WASM Decoders...", "process", NoName, 0)>>)
            /\ run = [pc |-> "import", files |-> validFiles, i |-> 0, gen |-> 1,
                      error |-> "none", calls |-> <<>>]
            /\ zipJobs = <<>>
            /\ archive = EmptyArchive
            /\ liveUrls = 0
            /\ ops = 2
            /\ lastStage = [seq |-> 1, kind |-> "Staged", candidates |-> ProgressList(n),
                            prevFiles |-> <<>>, prevResults |-> <<>>, prevProgress |-> 0]
            /\ batchGen = 1
            /\ attempts = [k \in 1..Len(validFiles) |-> 0]
            /\ outcomes = [k \in 1..Len(validFiles) |-> "none"]
            /\ emitted = <<>>
            /\ runEnd = "running"
            /\ restaged = FALSE
            /\ lastZip = <<>>

\* the run of each such batch, left alone
NextProgress ==
    \/ ImportResolved
    \/ HeaderRead
    \/ JpegResolved
    \/ TimerFired

SpecProgress == InitProgress /\ [][NextProgress]_vars

(***************************************************************************)
(* The HEIC_CONVERTER_V2.0 page (part_002:236-485): the same state, a      *)
(* .heic-only filter, a log of 50 entries, one heic2any call per file and  *)
(* a call of setFileStatuses, which the component never declares, at the   *)
(* head of the loop body.  No run of this page records a result, so its    *)
(* Get ZIP button (part_002:421) is never rendered and is left out.        *)
(***************************************************************************)
LogKeepV20 == 49   \* prev.slice(-49)

\* setLogs(prev => [...prev.slice(-49), newLog])
addLogV20(prev, entry) == Append(SliceLast(prev, LogKeepV20), entry)

RECURSIVE addLogsV20(_, _)
addLogsV20(prev, entries) ==
    IF entries = <<>> THEN prev
    ELSE addLogsV20(addLogV20(prev, Head(entries)), Tail(entries))

\* f.name.toLowerCase().endsWith(".heic")
IsValidNameV20(fname) == endsWith(toLowerCase(fname), DotHeic)

\* incoming.filter(...).slice(0, 100)
ValidFilesV20(selectedFiles) ==
    LET filtered == SelectSeq(selectedFiles, LAMBDA f : IsValidNameV20(f.name))
    IN  SubSeq(filtered, 1, IF Len(filtered) < MaxBatch THEN Len(filtered) ELSE MaxBatch)

HandleFilesV20(selectedFiles) ==
    LET validFiles == ValidFilesV20(selectedFiles)
    IN  /\ ops < MaxOps
        /\ lastStage.seq < MaxStages
        /\ ops' = ops + 1
        /\ IF Len(validFiles) = 0
           THEN /\ logs' = addLogV20(logs, LogEntry("No valid .heic files detected",
                                                    "error", NoName, 0))
                /\ lastStage' = StageRecord("Rejected", selectedFiles)
                /\ UNCHANGED <<files, results, progress, batchGen, restaged>>
           ELSE /\ files' = validFiles
                /\ results' = <<>>
                /\ progress' = 0
                /\ logs' = addLogV20(logs, LogEntry("Loaded n files. Ready to convert.",
                                                    "success", NoName, Len(validFiles)))
                /\ lastStage' = StageRecord("Staged", selectedFiles)
                /\ batchGen' = batchGen + 1
                /\ restaged' = TRUE
        /\ UNCHANGED <<isConverting, run, zipJobs, archive, liveUrls, attempts,
                       outcomes, emitted, runEnd, lastZip>>

MaxSizeV20 == 52428800   \* 50 * 1024 * 1024

\* file.size of the files of the model: b.HEIC is one byte over the limit
Size(file) == IF file.id = 3 THEN MaxSizeV20 + 1 ELSE 1024

\* file.size > 50 * 1024 * 1024 (part_002:325)
TooLarge(file) == Size(file) > MaxSizeV20

\* click on Run Conversion: enabled by part_002:415, guarded by part_002:298
ConvertImagesV20 ==
    /\ ops < MaxOps
    /\ Len(files) # 0
    /\ ~isConverting
    /\ ops' = ops + 1
    /\ isConverting' = TRUE
    /\ results' = <<>>
    /\ progress' = 0
    /\ logs' = addLogV20(logs, LogEntry("System Check: Initializing engine...",
                                        "process", NoName, 0))
    /\ run' = [pc |-> "import", files |-> files, i |-> 0, gen |-> batchGen,
               error |-> "none", calls |-> <<>>]
    /\ attempts' = [k \in 1..Len(files) |-> 0]
    /\ outcomes' = [k \in 1..Len(files) |-> "none"]
    /\ emitted' = <<>>
    /\ runEnd' = "running"
    /\ restaged' = FALSE
    /\ UNCHANGED <<files, zipJobs, archive, liveUrls, lastStage, batchGen, lastZip>>

\* what import("heic2any") can resolve to: lib.default || lib is a function or not
Engines == {"function", "object"}

\* import("heic2any") resolves (part_002:306-321, 357-362).  With an engine
\* that is not a function line 310 throws.  Otherwise the loop is entered and
\* its first statement after the log, setFileStatuses(...), throws a
\* ReferenceError outside the inner try: the outer catch ends the run, and
\* the inner try with its size check (324-354) is never entered.
ImportResolvedV20(engine) ==
    /\ run.pc = "import"
    /\ IF engine # "function"
       THEN /\ logs' = addLogV20(logs, LogEntry("FATAL: error.message", "error", NoName, 0))
            /\ run' = [run EXCEPT !.pc = "idle", !.error = "load"]
            /\ UNCHANGED attempts
       ELSE /\ logs' = addLogsV20(logs,
                  <<LogEntry("System Check: Engine ready.", "success", NoName, 0),
                    LogEntry("Converting [i+1/n]: name", "process", run.files[1].name, 1),
                    LogEntry("FATAL: error.message", "error", NoName, 0)>>)
            /\ run' = [run EXCEPT !.pc = "idle", !.error = "reference"]
            /\ attempts' = [attempts EXCEPT ![1] = @ + 1]
    /\ isConverting' = FALSE
    /\ runEnd' = "aborted"
    /\ UNCHANGED <<files, results, progress, zipJobs, archive, liveUrls, ops, lastStage,
                   batchGen, outcomes, emitted, restaged, lastZip>>

\* import("heic2any") rejects (part_002:357-362)
ImportRejectedV20 ==
    /\ run.pc = "import"
    /\ logs' = addLogV20(logs, LogEntry("FATAL: error.message", "error", NoName, 0))
    /\ isConverting' = FALSE
    /\ run' = [run EXCEPT !.pc = "idle", !.error = "load"]
    /\ runEnd' = "aborted"
    /\ UNCHANGED <<files, results, progress, zipJobs, archive, liveUrls, ops, lastStage,
                   batchGen, attempts, outcomes, emitted, restaged, lastZip>>

\* the Clear button: setLogs([]) (part_002:453)
ClearV20 ==
    /\ ops < MaxOps
    /\ ops' = ops + 1
    /\ logs' = <<>>
    /\ UNCHANGED <<files, isConverting, results, progress, run, zipJobs, archive,
                   liveUrls, lastStage, batchGen, attempts, outcomes, emitted, runEnd,
                   restaged, lastZip>>

NextV20 ==
    \/ \E selectedFiles \in Candidates : HandleFilesV20(selectedFiles)
    \/ HandleFilesNull
    \/ ConvertImagesV20
    \/ \E engine \in Engines : ImportResolvedV20(engine)
    \/ ImportRejectedV20
    \/ ClearV20

SpecV20 == Init /\ [][NextV20]_vars

(***************************************************************************)
(* The HEIC Batch Converter page (part_001:1-222): no log, a .heic-only    *)
(* filter, one heic2any call per file, the converted files collected in a  *)
(* local array (run.converted) that setResults publishes after the loop,   *)
(* and no pause between the files.                                         *)
(***************************************************************************)
\* f.name.toLowerCase().endsWith(".heic")
IsValidNameBatch(fname) == endsWith(toLowerCase(fname), DotHeic)

\* Array.from(selectedFiles).filter(...).slice(0, 100)
ValidFilesBatch(selectedFiles) ==
    LET filtered == SelectSeq(selectedFiles, LAMBDA f : IsValidNameBatch(f.name))
    IN  SubSeq(filtered, 1, IF Len(filtered) < MaxBatch THEN Len(filtered) ELSE MaxBatch)

HandleFilesBatch(selectedFiles) ==
    LET validFiles == ValidFilesBatch(selectedFiles)
    IN  /\ ops < MaxOps
        /\ lastStage.seq < MaxStages
        /\ ops' = ops + 1
        /\ lastStage' = StageRecord(IF Len(validFiles) = 0 THEN "Rejected" ELSE "Staged",
                                    selectedFiles)
        /\ IF Len(validFiles) = 0
           THEN UNCHANGED <<files, results, progress, batchGen, restaged>>
           ELSE /\ files' = validFiles
                /\ results' = <<>>
                /\ progress' = 0
                /\ batchGen' = batchGen + 1
                /\ restaged' = TRUE
        /\ UNCHANGED <<isConverting, logs, run, zipJobs, archive, liveUrls, attempts,
                       outcomes, emitted, runEnd, lastZip>>

\* click on Start Conversion, rendered only when part_001:174 holds
ConvertImagesBatch ==
    /\ ops < MaxOps
    /\ ~isConverting
    /\ Len(files) > 0
    /\ Len(results) = 0
    /\ ops' = ops + 1
    /\ isConverting' = TRUE
    /\ results' = <<>>
    /\ progress' = 0
    /\ run' = [pc |-> "import", files |-> files, i |-> 0, gen |-> batchGen,
               error |-> "none", calls |-> <<>>, converted |-> <<>>]
    /\ attempts' = [k \in 1..Len(files) |-> 0]
    /\ outcomes' = [k \in 1..Len(files) |-> "none"]
    /\ emitted' = <<>>
    /\ runEnd' = "running"
    /\ restaged' = FALSE
    /\ UNCHANGED <<files, logs, zipJobs, archive, liveUrls, lastStage, batchGen, lastZip>>

\* import("heic2any") resolves: the loop calls heic2any for the first file (58-68)
ImportResolvedBatch ==
    /\ run.pc = "import"
    /\ run' = [run EXCEPT !.pc = "jpeg"]
    /\ attempts' = [attempts EXCEPT ![1] = @ + 1]
    /\ UNCHANGED <<files, isConverting, results, progress, logs, zipJobs, archive,
                   liveUrls, ops, lastStage, batchGen, outcomes, emitted, runEnd,
                   restaged, lastZip>>

\* import("heic2any") rejects: the outer catch and finally (82-87)
ImportRejectedBatch ==
    /\ run.pc = "import"
    /\ isConverting' = FALSE
    /\ run' = [run EXCEPT !.pc = "idle", !.error = "load"]
    /\ runEnd' = "aborted"
    /\ UNCHANGED <<files, results, progress, logs, zipJobs, archive, liveUrls, ops,
                   lastStage, batchGen, attempts, outcomes, emitted, restaged, lastZip>>

\* the rest of the loop body without the setProgress call
ContinueBatchSilent(converted) ==
    /\ UNCHANGED <<progress, emitted>>
    /\ IF run.i + 1 < Len(run.files)
       THEN /\ run' = [run EXCEPT !.i = @ + 1, !.converted = converted]
            /\ attempts' = [attempts EXCEPT ![run.i + 2] = @ + 1]
            /\ UNCHANGED <<results, isConverting, runEnd>>
       ELSE /\ results' = converted
            /\ isConverting' = FALSE
            /\ run' = [run EXCEPT !.pc = "idle", !.i = Len(run.files),
                                  !.converted = converted]
            /\ runEnd' = "completed"
            /\ UNCHANGED attempts

\* the rest of the loop body after the try statement with converted as the
\* local array: setProgress, i++ and either the heic2any call for the next file
\* or setResults(converted) and the finally clause (79-87)
ContinueBatch(converted) ==
    /\ progress' = Percent(run.i + 1, Len(run.files))
    /\ emitted' = Append(emitted, Percent(run.i + 1, Len(run.files)))
    /\ IF run.i + 1 < Len(run.files)
       THEN /\ run' = [run EXCEPT !.i = @ + 1, !.converted = converted]
            /\ attempts' = [attempts EXCEPT ![run.i + 2] = @ + 1]
            /\ UNCHANGED <<results, isConverting, runEnd>>
       ELSE /\ results' = converted
            /\ isConverting' = FALSE
            /\ run' = [run EXCEPT !.pc = "idle", !.i = Len(run.files),
                                  !.converted = converted]
            /\ runEnd' = "completed"
            /\ UNCHANGED attempts

\* heic2any({toType: "image/jpeg"}) resolves: converted.push(...) (64-75)
DecodeResolvedBatch ==
    /\ run.pc = "jpeg"
    /\ CurrentFile.content = "jpeg"
    /\ liveUrls' = liveUrls + 1
    /\ outcomes' = [outcomes EXCEPT ![run.i + 1] = "success"]
    /\ ContinueBatch(Append(run.converted, ConvertedFile(CurrentFile, "image/jpeg")))
    /\ UNCHANGED <<files, logs, zipJobs, archive, ops, lastStage, batchGen, restaged,
                   lastZip>>

\* heic2any({toType: "image/jpeg"}) rejects: console.error (76-78)
DecodeRejectedBatch ==
    /\ run.pc = "jpeg"
    /\ CurrentFile.content # "jpeg"
    /\ outcomes' = [outcomes EXCEPT ![run.i + 1] = "failure"]
    /\ ContinueBatch(run.converted)
    /\ UNCHANGED <<files, logs, zipJobs, archive, liveUrls, ops, lastStage, batchGen,
                   restaged, lastZip>>

\* click on Clear all and start over, rendered with the results (part_001:183,
\* 207-212): the empty batch takes the place of the staged one
ClearAllBatch ==
    /\ ops < MaxOps
    /\ Len(results) > 0
    /\ ops' = ops + 1
    /\ files' = <<>>
    /\ results' = <<>>
    /\ progress' = 0
    /\ batchGen' = batchGen + 1
    /\ restaged' = TRUE
    /\ UNCHANGED <<isConverting, logs, run, zipJobs, archive, liveUrls, lastStage,
                   attempts, outcomes, emitted, runEnd, lastZip>>

\* click on Download All, rendered with the results (part_001:183); the guard
\* of line 91 is the same condition
DownloadAllBatch ==
    /\ ops < MaxOps
    /\ Len(zipJobs) < MaxZipJobs
    /\ Len(results) > 0
    /\ ops' = ops + 1
    /\ zipJobs' = Append(zipJobs, results)
    /\ UNCHANGED <<files, isConverting, results, progress, logs, run, archive, liveUrls,
                   lastStage, batchGen, attempts, outcomes, emitted, runEnd, restaged,
                   lastZip>>

\* generateAsync resolves: the archive is handed to the browser (93-105)
ZipDeliveredBatch(j) ==
    /\ j \in 1..Len(zipJobs)
    /\ archive' = ZipAll(EmptyArchive, zipJobs[j])
    /\ lastZip' = zipJobs[j]
    /\ liveUrls' = liveUrls + 1
    /\ zipJobs' = RemoveAt(zipJobs, j)
    /\ UNCHANGED <<files, isConverting, results, progress, logs, run, ops, lastStage,
                   batchGen, attempts, outcomes, emitted, runEnd, restaged>>

NextBatch ==
    \/ \E selectedFiles \in Candidates : HandleFilesBatch(selectedFiles)
    \/ HandleFilesNull
    \/ ConvertImagesBatch
    \/ ImportResolvedBatch
    \/ ImportRejectedBatch
    \/ DecodeResolvedBatch
    \/ DecodeRejectedBatch
    \/ ClearAllBatch
    \/ DownloadAllBatch
    \/ \E j \in 1..MaxZipJobs : ZipDeliveredBatch(j)
    \/ \E j \in 1..MaxZipJobs : ZipRejected(j)

SpecBatch == Init /\ [][NextBatch]_vars

(***************************************************************************)
(* HEIC_COMPILER_X (page.tsx:268-574).  The drop zone and the file input   *)
(* are rendered only while nothing is staged (461); the start button, the  *)
(* Cancel Staged Changes button and the results with their Package button  *)
(* are rendered only while something is (481-520).  convertSingleFile      *)
(* (329-354) touches no state of the component between its awaits, so the  *)
(* run is suspended at "import" (365), "convert" (372) or "sleep" (379).   *)
(***************************************************************************)
\* handleFiles (309-327), called from the drop zone or the input (465, 471)
HandleFilesX(selectedFiles) ==
    LET validFiles == ValidFiles(selectedFiles)
    IN  /\ ops < MaxOps
        /\ lastStage.seq < MaxStages
        /\ Len(files) = 0
        /\ ops' = ops + 1
        /\ lastStage' = StageRecord(IF Len(validFiles) = 0 THEN "Rejected" ELSE "Staged",
                                    selectedFiles)
        /\ IF Len(validFiles) = 0
           THEN /\ logs' = addLog(logs, LogEntry("ERROR: NO_HEIC_FILES_DETECTED", "error",
                                                 NoName, 0))
                /\ UNCHANGED <<files, results, progress, batchGen, restaged>>
           ELSE /\ files' = validFiles
                /\ results' = <<>>
                /\ progress' = 0
                /\ logs' = addLog(logs, LogEntry("GIT: Staged n files. Ready for build.",
                                                 "info", NoName, Len(validFiles)))
                /\ batchGen' = batchGen + 1
                /\ restaged' = TRUE
        /\ UNCHANGED <<isConverting, run, zipJobs, archive, liveUrls, attempts,
                       outcomes, emitted, runEnd, lastZip>>

\* click on Cancel Staged Changes: setFiles([]) (496); the empty batch
\* takes the place of the staged one
CancelStagedX ==
    /\ ops < MaxOps
    /\ Len(files) > 0
    /\ ops' = ops + 1
    /\ files' = <<>>
    /\ batchGen' = batchGen + 1
    /\ restaged' = TRUE
    /\ UNCHANGED <<isConverting, results, progress, logs, run, zipJobs, archive,
                   liveUrls, lastStage, attempts, outcomes, emitted, runEnd, lastZip>>

\* click on START CONVERSION (487-489), up to the import (356-365)
ConvertImagesX ==
    /\ ops < MaxOps
    /\ Len(files) # 0
    /\ ~isConverting
    /\ ops' = ops + 1
    /\ isConverting' = TRUE
    /\ results' = <<>>
    /\ progress' = 0
    /\ logs' = addLog(logs, LogEntry("sh ./scripts/convert.sh --all", "process", NoName, 0))
    /\ run' = [pc |-> "import", files |-> files, i |-> 0, gen |-> batchGen,
               error |-> "none", calls |-> <<>>]
    /\ attempts' = [k \in 1..Len(files) |-> 0]
    /\ outcomes' = [k \in 1..Len(files) |-> "none"]
    /\ emitted' = <<>>
    /\ runEnd' = "running"
    /\ restaged' = FALSE
    /\ UNCHANGED <<files, zipJobs, archive, liveUrls, lastStage, batchGen, lastZip>>

\* the loop head for index k (0-based) and the call of convertSingleFile (369-372)
EnterFileX(k) ==
    /\ logs' = addLog(logs, LogEntry("compiling [i+1/total] name...", "process",
                                     run.files[k + 1].name, k + 1))
    /\ run' = [run EXCEPT !.pc = "convert", !.i = k]
    /\ attempts' = [attempts EXCEPT ![k + 1] = @ + 1]

\* import("heic-decode") resolves (365-372)
ImportResolvedX ==
    /\ run.pc = "import"
    /\ EnterFileX(0)
    /\ UNCHANGED <<files, isConverting, results, progress, zipJobs, archive, liveUrls,
                   ops, lastStage, batchGen, outcomes, emitted, runEnd, restaged, lastZip>>

\* import("heic-decode") rejects: the outer catch and finally (382-386)
ImportRejectedX ==
    /\ run.pc = "import"
    /\ logs' = addLog(logs, LogEntry("FATAL: message", "error", NoName, 0))
    /\ isConverting' = FALSE
    /\ run' = [run EXCEPT !.pc = "idle", !.error = "load"]
    /\ runEnd' = "aborted"
    /\ UNCHANGED <<files, results, progress, zipJobs, archive, liveUrls, ops,
                   lastStage, batchGen, attempts, outcomes, emitted, restaged, lastZip>>

\* convertSingleFile resolves with res (372-374, 378-379)
ConvertResolvedX ==
    LET res == ConvertedFile(CurrentFile, "image/jpeg")
    IN  /\ run.pc = "convert"
        /\ CurrentFile.content # "bad"
        /\ results' = Append(results, res)
        /\ liveUrls' = liveUrls + 1
        /\ logs' = addLog(logs, LogEntry("success: res.name", "success", res.name, 0))
        /\ progress' = Percent(run.i + 1, Len(run.files))
        /\ emitted' = Append(emitted, Percent(run.i + 1, Len(run.files)))
        /\ outcomes' = [outcomes EXCEPT ![run.i + 1] = "success"]
        /\ run' = [run EXCEPT !.pc = "sleep"]
        /\ UNCHANGED <<files, isConverting, zipJobs, archive, ops, lastStage, batchGen,
                       attempts, runEnd, restaged, lastZip>>

\* convertSingleFile rejects (375-379)
ConvertRejectedX ==
    /\ run.pc = "convert"
    /\ CurrentFile.content = "bad"
    /\ logs' = addLog(logs, LogEntry("error: file.name failed", "error", CurrentFile.name, 0))
    /\ progress' = Percent(run.i + 1, Len(run.files))
    /\ emitted' = Append(emitted, Percent(run.i + 1, Len(run.files)))
    /\ outcomes' = [outcomes EXCEPT ![run.i + 1] = "failure"]
    /\ run' = [run EXCEPT !.pc = "sleep"]
    /\ UNCHANGED <<files, isConverting, results, zipJobs, archive, liveUrls, ops,
                   lastStage, batchGen, attempts, runEnd, restaged, lastZip>>

\* setTimeout(r, 20) fires: i++ and the loop test, then the next file or
\* the end of the run (368, 379-386)
TimerFiredX ==
    /\ run.pc = "sleep"
    /\ IF run.i + 1 < Len(run.files)
       THEN /\ EnterFileX(run.i + 1)
            /\ UNCHANGED <<isConverting, runEnd>>
       ELSE /\ logs' = addLog(logs, LogEntry("BUILD_COMPLETE: 100% of assets generated.",
                                             "success", NoName, 0))
            /\ isConverting' = FALSE
            /\ run' = [run EXCEPT !.pc = "idle", !.i = Len(run.files)]
            /\ runEnd' = "completed"
            /\ UNCHANGED attempts
    /\ UNCHANGED <<files, results, progress, zipJobs, archive, liveUrls, ops, lastStage,
                   batchGen, outcomes, emitted, restaged, lastZip>>

\* click on Package (.zip), rendered with the results of a staged batch
\* (461, 500-504), up to the import of jszip (389-391)
DownloadZipX ==
    /\ ops < MaxOps
    /\ Len(zipJobs) < MaxZipJobs
    /\ Len(files) > 0
    /\ Len(results) > 0
    /\ ops' = ops + 1
    /\ logs' = addLog(logs, LogEntry("packing assets into zip archive...", "process",
                                     NoName, 0))
    /\ zipJobs' = Append(zipJobs, results)
    /\ UNCHANGED <<files, isConverting, results, progress, run, archive, liveUrls,
                   lastStage, batchGen, attempts, outcomes, emitted, runEnd, restaged,
                   lastZip>>

\* generateAsync resolves: the archive is handed to the browser (391-400)
ZipDeliveredX(j) ==
    /\ j \in 1..Len(zipJobs)
    /\ archive' = ZipAll(EmptyArchive, zipJobs[j])
    /\ lastZip' = zipJobs[j]
    /\ liveUrls' = liveUrls + 1
    /\ logs' = addLog(logs, LogEntry("ARCHIVE_EXPORTED", "success", NoName, 0))
    /\ zipJobs' = RemoveAt(zipJobs, j)
    /\ UNCHANGED <<files, isConverting, results, progress, run, ops, lastStage,
                   batchGen, attempts, outcomes, emitted, runEnd, restaged>>

\* the Clear button of the console: setLogs([]) (528)
ClearLogsX ==
    /\ ops < MaxOps
    /\ ops' = ops + 1
    /\ logs' = <<>>
    /\ UNCHANGED <<files, isConverting, results, progress, run, zipJobs, archive,
                   liveUrls, lastStage, batchGen, attempts, outcomes, emitted, runEnd,
                   restaged, lastZip>>

NextX ==
    \/ \E selectedFiles \in Candidates : HandleFilesX(selectedFiles)
    \/ HandleFilesNull
    \/ CancelStagedX
    \/ ConvertImagesX
    \/ ImportResolvedX
    \/ ImportRejectedX
    \/ ConvertResolvedX
    \/ ConvertRejectedX
    \/ TimerFiredX
    \/ DownloadZipX
    \/ \E j \in 1..MaxZipJobs : ZipDeliveredX(j)
    \/ \E j \in 1..MaxZipJobs : ZipRejected(j)
    \/ ClearLogsX

SpecX == Init /\ [][NextX]_vars

(***************************************************************************)
(* HEIC to JPEG, the single-file page (part_000).  Its state is file (the  *)
(* selected File or null), isConverting and result (an object URL or       *)
(* null): file is held in files and result in results, each a list of at   *)
(* most one element, the empty list standing for null.  batchGen counts    *)
(* the selections; run is the convertImage invocation in flight with the   *)
(* file of its closure, suspended at "import" (22) or "jpeg" (24).         *)
(***************************************************************************)
\* URL.createObjectURL(resultBlob) (30-31); src is history: the file the
\* blob was decoded from
ObjectUrl(file) == [blob |-> [src |-> file.id, type |-> "image/jpeg"]]

\* handleFileChange (10-15) with e.target.files[0] = f
HandleFileChange(f) ==
    /\ ops < MaxOps
    /\ ops' = ops + 1
    /\ files' = <<f>>
    /\ results' = <<>>
    /\ batchGen' = batchGen + 1
    /\ restaged' = TRUE
    /\ UNCHANGED <<isConverting, progress, logs, run, zipJobs, archive, liveUrls,
                   lastStage, attempts, outcomes, emitted, runEnd, lastZip>>

\* handleFileChange when the dialog is closed with no file: the if of line 11
HandleFileChangeNoFile == UNCHANGED vars

\* click on Convert to JPEG, disabled while !file || isConverting (66), up
\* to the import (17-22)
ConvertImage ==
    /\ ops < MaxOps
    /\ Len(files) # 0
    /\ ~isConverting
    /\ ops' = ops + 1
    /\ isConverting' = TRUE
    /\ run' = [pc |-> "import", files |-> files, i |-> 0, gen |-> batchGen,
               error |-> "none", calls |-> <<>>]
    /\ attempts' = <<0>>
    /\ outcomes' = <<"none">>
    /\ runEnd' = "running"
    /\ restaged' = FALSE
    /\ UNCHANGED <<files, results, progress, logs, zipJobs, archive, liveUrls,
                   lastStage, batchGen, emitted, lastZip>>

\* import("heic2any") resolves: heic2any is called on the file of the closure (22-28)
ImportResolvedSingle ==
    /\ run.pc = "import"
    /\ run' = [run EXCEPT !.pc = "jpeg"]
    /\ attempts' = <<1>>
    /\ UNCHANGED <<files, isConverting, results, progress, logs, zipJobs, archive,
                   liveUrls, ops, lastStage, batchGen, outcomes, emitted, runEnd,
                   restaged, lastZip>>

\* import("heic2any") rejects: catch and finally (33-38)
ImportRejectedSingle ==
    /\ run.pc = "import"
    /\ isConverting' = FALSE
    /\ run' = [run EXCEPT !.pc = "idle", !.error = "load"]
    /\ runEnd' = "aborted"
    /\ UNCHANGED <<files, results, progress, logs, zipJobs, archive, liveUrls, ops,
                   lastStage, batchGen, attempts, outcomes, emitted, restaged, lastZip>>

\* heic2any resolves: setResult(url) and finally (24-32, 36-38)
ConvertResolvedSingle ==
    /\ run.pc = "jpeg"
    /\ CurrentFile.content = "jpeg"
    /\ results' = <<ObjectUrl(CurrentFile)>>
    /\ liveUrls' = liveUrls + 1
    /\ isConverting' = FALSE
    /\ outcomes' = <<"success">>
    /\ run' = [run EXCEPT !.pc = "idle"]
    /\ runEnd' = "completed"
    /\ UNCHANGED <<files, progress, logs, zipJobs, archive, ops, lastStage, batchGen,
                   attempts, emitted, restaged, lastZip>>

\* heic2any rejects: catch (console.error, alert) and finally (33-38)
ConvertRejectedSingle ==
    /\ run.pc = "jpeg"
    /\ CurrentFile.content # "jpeg"
    /\ isConverting' = FALSE
    /\ outcomes' = <<"failure">>
    /\ run' = [run EXCEPT !.pc = "idle"]
    /\ runEnd' = "completed"
    /\ UNCHANGED <<files, results, progress, logs, zipJobs, archive, liveUrls, ops,
                   lastStage, batchGen, attempts, emitted, restaged, lastZip>>

NextSingle ==
    \/ \E f \in StageFiles : HandleFileChange(f)
    \/ HandleFileChangeNoFile
    \/ ConvertImage
    \/ ImportResolvedSingle
    \/ ImportRejectedSingle
    \/ ConvertResolvedSingle
    \/ ConvertRejectedSingle

SpecSingle == Init /\ [][NextSingle]_vars

(***************************************************************************)
(* Vocabulary of the properties.                                           *)
(***************************************************************************)
\* files of the run's batch whose outcome has been recorded
CompletedCount == Cardinality({k \in DOMAIN outcomes : outcomes[k] # "none"})

\* a run has ended and the converting flag is false
Finished == runEnd \in {"completed", "aborted"} /\ ~isConverting

SameLetter(a, b) ==
    \/ a = b
    \/ <<a, b>> \in {<<"H", "h">>, <<"E", "e">>, <<"I", "i">>, <<"C", "c">>, <<"F", "f">>}

\* the name ends, letter case ignored, in the extension ext
EndsInExtension(name, ext) ==
    /\ Len(name) >= Len(ext)
    /\ \A k \in 1..Len(ext) : SameLetter(name[Len(name) - Len(ext) + k], ext[k])

Accepted(name) == EndsInExtension(name, DotHeic) \/ EndsInExtension(name, DotHeif)

\* positions of the candidates with an accepted name, and the rank of one among them
AcceptedAt(c) == {k \in 1..Len(c) : Accepted(c[k].name)}
RankIn(acc, k) == Cardinality({j \in acc : j <= k})

Convertible(file) == file.content # "bad"

\* C1: when a run of a batch completes (its loop runs to the end), the number of
\* files with a recorded outcome equals the number of files of the batch, which
\* is the staged list unless a new batch was staged meanwhile, and every file
\* of the batch has been handed to convertSingleFile exactly once.
C1_EveryFileExactlyOnce ==
    runEnd = "completed" =>
        /\ CompletedCount = Len(run.files)
        /\ Len(attempts) = Len(run.files)
        /\ \A k \in 1..Len(run.files) : attempts[k] = 1
        /\ ~restaged => run.files = files

C1_Witness ==
    /\ runEnd = "completed"
    /\ files = Batch4
    /\ CompletedCount = 4
    /\ \A k \in 1..4 : attempts[k] = 1

\* C2: a file whose conversion failed after both attempts never aborts the run:
\* the run does not end as aborted, and when it has completed every later file
\* has been attempted, each convertible one succeeded and, if no batch was
\* staged during the run, is in the results.
C2_FailureDoesNotAbort ==
    \A k \in DOMAIN outcomes :
        outcomes[k] = "failure" =>
            /\ runEnd # "aborted"
            /\ runEnd = "completed" =>
                  \A m \in (k + 1)..Len(run.files) :
                      /\ attempts[m] = 1
                      /\ Convertible(run.files[m]) =>
                            /\ outcomes[m] = "success"
                            /\ ~restaged =>
                                  \E r \in 1..Len(results) :
                                      results[r].blob.src = run.files[m].id

C2_Witness ==
    /\ runEnd = "completed"
    /\ files = Batch3
    /\ outcomes = <<"success", "failure", "success">>
    /\ Len(results) = 2
    /\ results[1].blob.src = F1.id
    /\ results[2].blob.src = F2.id

\* C3: no result produced by a run of an earlier batch is ever in the results of
\* the batch staged now.
C3_NoResultOfAbandonedRun ==
    \A k \in 1..Len(results) : results[k].gen = batchGen

\* C4: a stage in which no candidate name is accepted is rejected, and a
\* rejected stage leaves the files, the results, the progress, the converting
\* flag and the run as they were.
C4_RejectedStageChangesNothing ==
    [][lastStage'.seq # lastStage.seq =>
          /\ (lastStage'.kind = "Rejected") <=> (AcceptedAt(lastStage'.candidates) = {})
          /\ lastStage'.kind = "Rejected" =>
                UNCHANGED <<files, results, progress, isConverting, run>>]_vars

C4_Witness ==
    /\ lastStage.kind = "Rejected"
    /\ lastStage.candidates # <<>>
    /\ Len(lastStage.prevFiles) = 2
    /\ lastStage.prevResults # <<>>
    /\ lastStage.prevProgress > 0
    /\ files = lastStage.prevFiles
    /\ results = lastStage.prevResults
    /\ progress = lastStage.prevProgress

\* C5: the staged list never holds more than 100 files, and a stage of more
\* than 100 accepted candidates stages exactly the first 100 of them, in input
\* order.
C5_AtMostHundredStaged ==
    /\ Len(files) <= 100
    /\ lastStage.kind = "Staged" =>
          LET c == lastStage.candidates
              acc == AcceptedAt(c)
          IN  /\ Cardinality(acc) > 100 => Len(files) = 100
              /\ Cardinality(acc) <= 100 => Len(files) = Cardinality(acc)
              /\ \A k \in acc : RankIn(acc, k) <= 100 => files[RankIn(acc, k)] = c[k]

C5_Witness ==
    /\ lastStage.kind = "Staged"
    /\ Len(lastStage.candidates) = 150
    /\ Cardinality(AcceptedAt(lastStage.candidates)) = 120
    /\ Len(files) = 100
    /\ files[100] = lastStage.candidates[124]

\* C6: after a stage, a candidate is in the staged list if and only if its name
\* ends, letter case ignored, in .heic or .heif and it is among the first 100
\* such candidates; every staged name ends in an accepted extension.
C6_StagedIffAccepted ==
    /\ \A p \in 1..Len(files) : Accepted(files[p].name)
    /\ lastStage.kind = "Staged" =>
          LET c == lastStage.candidates
              acc == AcceptedAt(c)
              staged == {files[p] : p \in 1..Len(files)}
          IN  \A k \in 1..Len(c) :
                  (c[k] \in staged) <=> (k \in acc /\ RankIn(acc, k) <= 100)

C6_Witness ==
    /\ lastStage.kind = "Staged"
    /\ Len(lastStage.candidates) = 150
    /\ lastStage.candidates[2].name = F3.name
    /\ files[2] = lastStage.candidates[2]
    /\ ~Accepted(lastStage.candidates[5].name)
    /\ Accepted(lastStage.candidates[126].name)
    /\ \A p \in 1..Len(files) :
          files[p] # lastStage.candidates[5] /\ files[p] # lastStage.candidates[126]

\* C7: a successful stage sets the staged list to the new batch, the results to
\* empty and the progress to 0, whatever they were.
C7_StageReplacesBatch ==
    [][(lastStage'.seq # lastStage.seq /\ lastStage'.kind = "Staged") =>
          LET acc == AcceptedAt(lastStage'.candidates)
          IN  /\ files' # <<>>
              /\ \A p \in 1..Len(files') :
                    \E k \in acc :
                        /\ RankIn(acc, k) = p
                        /\ files'[p] = lastStage'.candidates[k]
              /\ results' = <<>>
              /\ progress' = 0]_vars

C7_Witness ==
    /\ lastStage.kind = "Staged"
    /\ Len(lastStage.prevFiles) = 3
    /\ Len(lastStage.prevResults) = 2
    /\ lastStage.prevProgress = 100
    /\ files = <<F2>>
    /\ results = <<>>
    /\ progress = 0

\* C8: the values a run passes to setProgress are non-decreasing, the k-th is
\* an integer nearest to k / n * 100, the last one of a completed run is 100,
\* and a completed run of 4 files emitted 25, 50, 75, 100.
C8_ProgressSequence ==
    LET n == Len(run.files)
    IN  /\ \A k \in 1..Len(emitted) :
              /\ 200 * k - n <= 2 * emitted[k] * n
              /\ 2 * emitted[k] * n <= 200 * k + n
              /\ k > 1 => emitted[k - 1] <= emitted[k]
        /\ runEnd = "completed" =>
              /\ Len(emitted) = n
              /\ emitted[n] = 100
              /\ n = 4 => emitted = <<25, 50, 75, 100>>

C8_Witness ==
    /\ runEnd = "completed"
    /\ Len(run.files) = 4
    /\ emitted = <<25, 50, 75, 100>>
    /\ progress = 100

\* C9 as stated: with a batch staged, the completed-count is at most the number
\* of staged files, and the status is Finished exactly when the two are equal.
C9_FinishedIffAllCompleted ==
    Len(files) > 0 =>
        /\ CompletedCount <= Len(files)
        /\ Finished <=> (CompletedCount = Len(files))

\* C9 as amended: the completed-count is at most the number of files of the
\* batch the run was started on (the staged list unless a batch was staged
\* meanwhile); the converting flag is true exactly while a run is in flight; a
\* run that completed has recorded every file of its batch, and a run that the
\* decoder's load failure ended has recorded none.
C9_CompletedCountAndStatus ==
    /\ CompletedCount <= Len(run.files)
    /\ (runEnd # "none" /\ ~restaged) => run.files = files
    /\ isConverting <=> (runEnd = "running")
    /\ runEnd = "completed" => CompletedCount = Len(run.files)
    /\ runEnd = "aborted" => CompletedCount = 0

C9_Witness ==
    /\ isConverting
    /\ Len(files) = 3
    /\ run.files = files
    /\ CompletedCount = 3

\* C10: an archive built from N results has N members, and every result's name
\* is a member holding that result's blob.
C10_ArchiveHoldsEveryOutcome ==
    /\ Cardinality(DOMAIN archive) = Len(lastZip)
    /\ \A k \in 1..Len(lastZip) :
          /\ lastZip[k].name \in DOMAIN archive
          /\ archive[lastZip[k].name] = lastZip[k].blob

C12_OnlyLoadFailureAborts ==
    [][/\ (runEnd = "running" /\ runEnd' = "aborted") =>
             /\ run'.error = "load"
             /\ \A k \in DOMAIN attempts' : attempts'[k] = 0
             /\ \A k \in DOMAIN outcomes' : outcomes'[k] = "none"
             /\ results' = results
             /\ ~isConverting'
             /\ logs' # <<>>
             /\ logs'[Len(logs')].type = "error"
       /\ \A k \in DOMAIN outcomes :
             (k \in DOMAIN outcomes' /\ outcomes[k] = "none" /\ outcomes'[k] = "failure") =>
                 /\ runEnd' = "running"
                 /\ isConverting'
                 /\ results' = results
                 /\ \A m \in DOMAIN outcomes \ {k} : outcomes'[m] = outcomes[m]]_vars

\* C13: every failure appends exactly one entry of error severity to the log:
\* a file whose conversion failed, a rejected stage and a failed load of the
\* decoder; the entry of a file's failure carries the name of that file
\* together with the message of the error.
C13_EveryFailureLogged ==
    [][LET fileFailed == {k \in DOMAIN outcomes :
                             /\ k \in DOMAIN outcomes'
                             /\ outcomes[k] = "none"
                             /\ outcomes'[k] = "failure"}
           rejected == lastStage'.seq # lastStage.seq /\ lastStage'.kind = "Rejected"
           aborted == runEnd = "running" /\ runEnd' = "aborted"
       IN  (fileFailed # {} \/ rejected \/ aborted) =>
               /\ logs' # <<>>
               /\ logs' = addLog(logs, logs'[Len(logs')])
               /\ logs'[Len(logs')].type = "error"
               /\ \A k \in fileFailed :
                     /\ logs'[Len(logs')].message = "ERROR: err.message"
                     /\ logs'[Len(logs')].name = run.files[k].name]_vars

\* the step appended m entries to the log, the oldest ones making room
Appended(old, new, m) ==
    LET d == IF Len(old) + m > 100 THEN Len(old) + m - 100 ELSE 0
    IN  /\ Len(new) = Len(old) + m - d
        /\ \A k \in 1..(Len(old) - d) : new[k] = old[k + d]

\* C14 as stated: the log never holds more than 100 entries, and every step
\* that changes it appends entries, dropping exactly as many of the oldest as
\* do not fit and keeping the others in their order; nothing else removes or
\* reorders entries.
C14_LogAppendOnly ==
    [][/\ Len(logs') <= 100
       /\ logs' # logs => \E m \in 1..3 : Appended(logs, logs', m)]_vars

\* C14 as amended: the same, except that the Flush button empties the log.
C14_LogBoundedFlushEmpties ==
    [][/\ Len(logs') <= 100
       /\ logs' # logs =>
             \/ \E m \in 1..3 : Appended(logs, logs', m)
             \/ logs' = <<>> /\ ops' = ops + 1 /\ UNCHANGED <<files, lastStage, runEnd>>]_vars

C14_Witness ==
    /\ ops = 2
    /\ runEnd = "completed"
    /\ Len(run.files) = 26
    /\ Len(logs) = 100
    /\ logs[100].message = "Sequence terminated. Check Output Vault."
    /\ logs[1].message = "Header [name.slice(-10)]: hex"

\* C15: for every file the decoder is called at most twice, first with the
\* JPEG target; a second call has the PNG target and is made only after a
\* first call that failed with the decoder's unsupported-format error; a first
\* call that succeeded is the only one, and a file whose two calls failed is
\* recorded as a failure.
C15_AtMostTwoDecodes ==
    LET calls == run.calls
    IN  /\ Len(calls) + (IF run.pc \in {"jpeg", "png"} THEN 1 ELSE 0) <= 2
        /\ Len(calls) >= 1 => calls[1].toType = "image/jpeg"
        /\ (run.pc = "png" \/ Len(calls) = 2) => calls[1].result = "unsupported"
        /\ Len(calls) = 2 => calls[2].toType = "image/png"
        /\ (Len(calls) >= 1 /\ calls[1].result = "ok") =>
              Len(calls) = 1 /\ run.pc # "png"
        /\ (run.pc = "sleep" /\ Len(calls) = 2 /\ calls[2].result # "ok") =>
              outcomes[run.i + 1] = "failure"

\* C16: every result is named after the format its bytes are encoded in: a
\* result made by the PNG fallback does not carry a name ending in .jpg, and a
\* result whose name ends in .jpg holds JPEG bytes.
C16_NameTellsFormat ==
    \A k \in 1..Len(results) :
        /\ results[k].blob.type = "image/png" => ~endsWith(results[k].name, DotJpg)
        /\ endsWith(results[k].name, DotJpg) => results[k].blob.type = "image/jpeg"

\* files of the run's batch handed to convertSingleFile whose outcome is not
\* recorded yet
InFlight == {k \in DOMAIN attempts : attempts[k] > 0 /\ outcomes[k] = "none"}

\* C17: within a run the files are processed strictly one after the other: a
\* file is handed to the decoder only when the outcome of the file before it
\* has been recorded and its progress value emitted, and at most one file of
\* the run is in flight.
C17_StrictlySequential ==
    /\ Cardinality(InFlight) <= 1
    /\ \A k \in DOMAIN attempts :
          (k > 1 /\ attempts[k] > 0) =>
              /\ outcomes[k - 1] # "none"
              /\ Len(emitted) >= k - 1
              /\ \A j \in 1..(k - 1) : attempts[j] > 0

C17_Witness ==
    /\ run.pc = "png"
    /\ run.i = 2
    /\ InFlight = {3}
    /\ outcomes = <<"success", "failure", "none">>
    /\ emitted = <<33, 67>>

\* C18: the handles of superseded results are released: as long as no archive
\* has been delivered (an archive has a handle of its own), the number of live
\* object URLs never exceeds the number of results held.
C18_HandlesReleased ==
    lastZip = <<>> => liveUrls <= Len(results)

\* C19: when a run completes, the results hold exactly one entry for each file
\* of the batch whose conversion succeeded and none for a file that failed, and
\* the number of failures is the number of staged files minus the number of
\* results.
C19_ResultsAreTheSuccesses ==
    [][(runEnd = "running" /\ runEnd' = "completed") =>
          LET succeeded == {k \in DOMAIN outcomes' : outcomes'[k] = "success"}
              failed == {k \in DOMAIN outcomes' : outcomes'[k] = "failure"}
              entriesOf(k) == {r \in 1..Len(results') :
                                  results'[r].blob.src = run'.files[k].id}
          IN  /\ Len(results') = Cardinality(succeeded)
              /\ \A k \in succeeded : Cardinality(entriesOf(k)) = 1
              /\ \A k \in failed : entriesOf(k) = {}
              /\ Cardinality(failed) = Len(files') - Len(results')]_vars

\* the result of file k of the run's batch is in the results
Published(k) == \E r \in 1..Len(results) : results[r].blob.src = run.files[k].id

\* C20 as stated: during a run, as long as no other batch is staged, the result
\* of every file that has succeeded is in the results and the progress is the
\* value of the last completed file, whatever file is being decoded.
C20_ResultAndProgressPublished ==
    (runEnd = "running" /\ ~restaged) =>
        /\ \A k \in DOMAIN outcomes : outcomes[k] = "success" => Published(k)
        /\ CompletedCount > 0 => progress = Percent(CompletedCount, Len(run.files))

\* C20 as amended: during a run, as long as no other batch is staged, the
\* progress is the value of the last completed file whatever file is being
\* decoded; the results hold every succeeded file once the run has completed.
C20_ProgressPublishedResultsAtEnd ==
    ~restaged =>
        /\ (runEnd = "running" /\ CompletedCount > 0) =>
              progress = Percent(CompletedCount, Len(run.files))
        /\ runEnd = "completed" =>
              \A k \in DOMAIN outcomes : outcomes[k] = "success" => Published(k)

C20_Witness ==
    /\ runEnd = "running"
    /\ ~restaged
    /\ run.pc = "jpeg"
    /\ run.i = 1
    /\ outcomes = <<"success", "none">>
    /\ progress = 50
    /\ results = <<>>
    /\ Len(run.converted) = 1

\* C21: no step of convertImages and no step of the archive operation changes
\* the staged list: the list changes only in a handleFiles call; and a
\* handleFiles call never changes the converting flag.
C21_StagedListFrame ==
    [][/\ (run' # run \/ runEnd' # runEnd \/ zipJobs' # zipJobs \/ archive' # archive) =>
             files' = files
       /\ files' # files => lastStage'.seq # lastStage.seq
       /\ lastStage'.seq # lastStage.seq => isConverting' = isConverting]_vars

C21_Witness ==
    /\ runEnd = "completed"
    /\ ~restaged
    /\ files = Batch3
    /\ run.files = Batch3
    /\ Len(results) = 2
    /\ lastZip = results

\* C22: in a run of a batch of n files (n at most 100) the progress value
\* after k files lies in 1..100, is strictly greater than the value after
\* k - 1 files, and is 100 exactly when k = n; the progress is never 100 while
\* a file of the run's batch has no outcome.
C22_ProgressStrictlyIncreasing ==
    LET n == Len(run.files)
    IN  /\ n <= 100
        /\ \A k \in 1..Len(emitted) :
              /\ emitted[k] \in 1..100
              /\ k > 1 => emitted[k - 1] < emitted[k]
              /\ (emitted[k] = 100) <=> (k = n)
        /\ progress = 100 => CompletedCount = n

C22_Witness ==
    /\ runEnd = "completed"
    /\ Len(lastStage.candidates) = 101
    /\ Len(run.files) = 100
    /\ Len(emitted) = 100
    /\ emitted[1] = 1
    /\ emitted[99] = 99
    /\ progress = 100

\* C23: the converting flag is true exactly while a run is in flight, and,
\* every awaited call settling, a run that has started ends with the flag
\* false, whether files succeed or fail or the decoder fails to load.
C23_RunEnds ==
    /\ [](isConverting <=> (runEnd = "running"))
    /\ isConverting ~> (~isConverting /\ runEnd \in {"completed", "aborted"})

C23_Witness ==
    /\ ~isConverting
    /\ runEnd = "completed"
    /\ Len(run.files) = 4
    /\ outcomes = <<"success", "success", "failure", "success">>

\* C24: at most one batch run is in flight: a run can be started only while
\* the converting flag is false and the staged list is not empty, so a
\* request made during a run is no step at all, and the run in flight is
\* the one the flag was raised for, over a list that is not empty.
C24_OneRunInFlight ==
    /\ ENABLED ConvertImages => (~isConverting /\ Len(files) > 0)
    /\ isConverting =>
        /\ runEnd = "running"
        /\ run.pc # "idle"
        /\ Len(run.files) > 0
        /\ DOMAIN attempts = 1..Len(run.files)
        /\ run.i <= Len(run.files)

C24_Witness ==
    /\ isConverting
    /\ ops < MaxOps
    /\ Len(files) > 0
    /\ run.pc = "jpeg"
    /\ run.i = 2
    /\ ~ENABLED ConvertImages

\* C25: every entry of the results list was produced from a file of the
\* currently staged list (by a run started on the staged batch), so there
\* are never more results than staged files.
C25_ResultsFromStagedFiles ==
    /\ \A k \in 1..Len(results) :
        /\ results[k].gen = batchGen
        /\ \E j \in 1..Len(files) : files[j].id = results[k].blob.src
    /\ Len(results) <= Len(files)

\* C26: in the single-file converter a displayed result belongs to the
\* currently selected file: whenever a result is set, a file is selected
\* and the result was converted from that file.
C26_ResultOfSelectedFile ==
    results # <<>> => (files # <<>> /\ results[1].blob.src = files[1].id)

\* positions, in the list the run was started on, of the file result r was
\* converted from
StagedAt(r) == {k \in 1..Len(run.files) : run.files[k].id = results[r].blob.src}

\* C27: the results are in staged order: each result was converted from one
\* file of the list the run was started on, and of any two results the one
\* whose file was staged earlier comes first; once the run has completed,
\* no batch having been staged since it started, the results are the
\* successfully converted files of the staged list in that order.
C27_ResultsInStagedOrder ==
    /\ \A a \in 1..Len(results) : Cardinality(StagedAt(a)) = 1
    /\ \A a, b \in 1..Len(results) :
        a < b => \A ka \in StagedAt(a), kb \in StagedAt(b) : ka < kb
    /\ (runEnd = "completed" /\ ~restaged) =>
        LET ok == SelectSeq(files, LAMBDA f :
                      \E k \in DOMAIN outcomes :
                          run.files[k].id = f.id /\ outcomes[k] = "success")
        IN  /\ Len(results) = Len(ok)
            /\ \A r \in 1..Len(results) : results[r].blob.src = ok[r].id

C27_Witness ==
    /\ runEnd = "completed"
    /\ ~restaged
    /\ files = Batch4
    /\ Len(results) = 3
    /\ results[1].blob.src = F1.id
    /\ results[2].blob.src = F2.id
    /\ results[3].blob.src = F5.id

\* C28: the archive is built only from the results of a finished run: a
\* step that starts an archive (it takes the results as they are) is taken
\* only while the converting flag is false and no run is in flight.
C28_ArchiveOnlyOfFinishedRun ==
    [][Len(zipJobs') > Len(zipJobs) =>
          /\ ~isConverting
          /\ runEnd # "running"
          /\ zipJobs'[Len(zipJobs')] = results]_vars

\* C29: in the page with the size check, once a run whose decoder loaded has
\* ended, every file of its batch larger than 50 MB is recorded as a failure
\* and has no result, a progress value was published for it, and every file
\* after it was attempted.
C29_LargeFileFailsAlone ==
    (runEnd \in {"completed", "aborted"} /\ run.error # "load") =>
        \A k \in 1..Len(run.files) :
            TooLarge(run.files[k]) =>
                /\ outcomes[k] = "failure"
                /\ \A r \in 1..Len(results) : results[r].blob.src # run.files[k].id
                /\ Len(emitted) >= k
                /\ \A m \in (k + 1)..Len(run.files) : attempts[m] >= 1

====
